---- MODULE Spec2Model ----
(***************************************************************************)
(* AudioPlot (src/myapp.py): the Tk application App, its render tick       *)
(* update_plot, and the playback threads AsyncPlay with their sounddevice  *)
(* callbacks.                                                              *)
(*                                                                         *)
(* Times (sound.pos, sound.last_pos, sound.marker_pos, click x, the values *)
(* in the queue) are counted in half seconds; the modelled files have a    *)
(* sample rate of 2 Hz, so frame/fs is exact.                              *)
(*                                                                         *)
(* The Tk thread runs one handler at a time: a handler, with every call it *)
(* makes, is one action.  The playback side is modelled at the grain of    *)
(* the operations that synchronise: the thread's setup and entry into      *)
(* Event.wait, the callback's exhaustion test with queue.full()/clear(),   *)
(* the callback's queue.put, and the thread's exit.                        *)
(***************************************************************************)
EXTENDS Integers, Sequences, FiniteSets, TLC

\* ------------------------------------------------------------------ bounds
\* Playback threads that may be alive at once (Play/Resume need a free one).
MaxWorkers == 2
\* Pending after() callbacks of update_plot that may exist at once.
MaxTicks == 2
\* The `frames` argument the output stream hands to each callback.
BlockFrames == 1

\* ------------------------------------------------------------------- files
\* What sf.read returns for the paths the user may pick.
\*   long   3 frames at 2 Hz, non-zero samples      (1.5 s)
\*   short  1 frame  at 2 Hz, non-zero samples      (0.5 s)
\*   zeros  1 frame  at 2 Hz, every sample zero     (0.5 s)
\*   bad    sf.read raises (unreadable or unsupported file)
Files == {"long", "short", "zeros", "bad"}
NoFile == "nofile"

Readable(f) == f # "bad"

\* len(self.data)
NFrames(f) ==
  CASE f = "long" -> 3
    [] f = "short" -> 1
    [] f = "zeros" -> 1
    [] OTHER -> 0

\* self.samplerate
Rate(f) ==
  CASE f = "long" -> 2
    [] f = "short" -> 2
    [] f = "zeros" -> 2
    [] OTHER -> 0

\* self.data.any()
AnyNonZero(f) == f \in {"long", "short"}

\* len(self.data) / self.samplerate, in half seconds (files with a rate).
Duration(f) == (NFrames(f) * 2) \div Rate(f)

\* x coordinates a click on the axes may carry (half seconds): -1 lies
\* outside every plot, 1 inside the plot of "long" and beyond that of "short".
ClickTimes == {-1, 1}
Buttons == {"LEFT", "RIGHT"}

\* sound.marker_pos is None, or a time t, written <<t>>.
None == <<>>

Workers == 1..MaxWorkers

VARIABLES
  data,          \* self.data / self.samplerate: the file they were read from
  time_axis,     \* the file self.time_axis (and the canvas) was built from
  stop_event,    \* self.stop_event.is_set()
  pause_event,   \* self.pause_event.is_set()
  queue,         \* self.queue: LifoQueue(maxsize = 1), as a sequence
  pos,           \* self.sound.pos
  last_pos,      \* self.sound.last_pos
  marker_pos,    \* self.sound.marker_pos
  play_button,   \* self.play_button['state']
  ctl_buttons,   \* self.pause_button['state'] and self.stop_button['state']
  after,         \* number of pending self.after(20, ...) callbacks
  play_thread,   \* self.play_thread: 0 while the attribute does not exist, else 1
  threads,       \* the AsyncPlay threads: threads[1] is the one self.play_thread
                 \* refers to, the others are earlier ones that may still run
  ui,            \* "idle", or "closed" once on_close has destroyed the window
  cmd            \* history: the last user command and its arguments

vars == <<data, time_axis, stop_event, pause_event, queue, pos, last_pos,
          marker_pos, play_button, ctl_buttons, after, play_thread, threads,
          ui, cmd>>

\* ---------------------------------------------------------------- helpers
\* An AsyncPlay that is not alive (never started, or run() has returned).
DeadThread == [st |-> "dead", stream |-> "none", cb |-> "none", frame |-> 0, n |-> 0, fs |-> 0,
               pending |-> FALSE]

Alive(t) == t.st # "dead"

\* self.play_thread.is_alive() if hasattr(self, 'play_thread') else False
PlayThreadAlive(pt, th) == pt # 0 /\ Alive(th[pt])

\* AsyncPlay.__init__: self.current_frame = int(pos * fs)
StartFrame(p, fs) == (p * fs) \div 2

\* callback: self.curr_time = self.current_frame / self.fs
CurrTime(frame, fs) == (frame * 2) \div fs

\* time_axis = linspace(0, n / fs, n, endpoint = False): its last element
AxisLast(f) == ((NFrames(f) - 1) * 2) \div Rate(f)

\* self.time_axis[0] <= x_cursor <= self.time_axis[-1]
InRange(x, f) == 0 <= x /\ x <= AxisLast(f)

\* Event.set() on stop_event: every thread blocked in stop_event.wait() is
\* notified and will return from it, whatever happens to the flag later.
Notify(th) ==
  [w \in Workers |-> IF th[w].st = "wait"
                       THEN [th[w] EXCEPT !.st = "woken", !.pending = FALSE]
                       ELSE th[w]]

\* stop_event.set() in a user command (click_pause, click_stop,
\* on_mouse_click, on_close): as Notify, and a thread that is alive but has
\* not reached stop_event.wait() yet is noted (history) as having a stop
\* signal of the user pending, until it looks at the flag.
Signal(th) ==
  [w \in Workers |-> IF th[w].st = "setup" THEN [th[w] EXCEPT !.pending = TRUE]
                       ELSE Notify(th)[w]]

\* Queue.get() notifies one thread blocked in Queue.put(), which retries.
Blocked(th) == {w \in Workers : th[w].cb = "blocked"}

\* The lowest free thread slot.
FreeSlot(th) == CHOOSE w \in Workers : ~Alive(th[w]) /\ \A v \in Workers : v < w => Alive(th[v])

\* self.play_thread = AsyncPlay(self.data, self.samplerate, self.queue,
\* self.stop_event, last_pos); self.play_thread.start().  The thread the
\* attribute referred to, if still alive, keeps running in another slot.
Spawn(th, f, lp) ==
  LET new == [st |-> "setup", stream |-> "none", cb |-> "none",
              frame |-> StartFrame(lp, Rate(f)), n |-> NFrames(f), fs |-> Rate(f),
              pending |-> FALSE]
  IN [w \in Workers |-> IF w = 1 THEN new
                        ELSE IF w = FreeSlot(th) THEN th[1]
                        ELSE th[w]]

\* The last user command, as far as the properties below tell commands apart:
\* "stop", "pause" (issued while Playing, x: sound.pos at that moment),
\* "seek" (an in-range left click, x: its time), "other"; and "eob" when,
\* since that command, thread x has reached the end of its buffer while the
\* transport was Playing, "died" when, since that command, the thread
\* self.play_thread refers to (x) has exited with the stop signal clear.
Cmd(op, x) == [op |-> op, x |-> x]

\* ------------------------------------------------------------ update_plot
\* StoppedPos with the reset to time_axis[0] left out.
StoppedPosKept(pse, p) == p

\* update_plot, stop_event set: sound.pos snaps to time_axis[0], which is 0,
\* unless pause_event is set.
StoppedPos(pse, p) == IF pse THEN p ELSE 0

\* update_plot, stop_event clear: sound.pos is the value taken from the
\* queue, or last_pos when the queue is empty; untouched when pause_event
\* is set.
PlayingPos(pse, q, lp, p) == IF pse THEN p ELSE IF q # <<>> THEN Head(q) ELSE lp

\* LivenessCheck for an update_plot without its last three lines.
LivenessCheckOff(stp, alive) == stp

\* update_plot: "if not play_thread_active: self.stop_event.set()", the stop
\* signal after it.
LivenessCheck(stp, alive) == IF alive THEN stp ELSE TRUE

\* Scheduled for an update_plot that rescheduled itself on every call.
ScheduledAlways(stp) == 1

\* update_plot: the number of self.after(20, ...) calls it makes, one in the
\* branch taken when stop_event is clear and none in the other.
Scheduled(stp) == IF stp THEN 0 ELSE 1

\* The body of update_plot(last_pos) as a function of what it reads; `alive`
\* is the liveness of self.play_thread at its last statement.
update_plot(lp, stp, pse, q, p, pb, alive) ==
  LET playing == ~stp
      read    == playing /\ ~pse /\ q # <<>>
  IN [ pos         |-> IF playing THEN PlayingPos(pse, q, lp, p) ELSE StoppedPos(pse, p),
       last_pos    |-> IF ~playing /\ ~pse THEN 0 ELSE lp,
       queue       |-> IF read THEN <<>> ELSE q,
       read        |-> read,
       scheduled   |-> Scheduled(stp),
       play_button |-> IF playing THEN pb ELSE "normal",
       stop_event  |-> LivenessCheck(stp, alive) ]

\* The threads after update_plot: its queue.get() wakes the blocked putter
\* `waker` (0 when none is blocked), its final stop_event.set() notifies.
AfterUpdate(th, r, waker) ==
  LET th1 == IF r.read /\ waker # 0 THEN [th EXCEPT ![waker].cb = "put"] ELSE th
  IN IF r.stop_event THEN Notify(th1) ELSE th1

Wakers(th, r) == IF r.read /\ Blocked(th) # {} THEN Blocked(th) ELSE {0}

\* -------------------------------------------------------------------- Init
Init ==
  /\ data = NoFile
  /\ time_axis = NoFile
  /\ stop_event = FALSE
  /\ pause_event = FALSE
  /\ queue = <<>>
  /\ pos = 0
  /\ last_pos = 0
  /\ marker_pos = None
  /\ play_button = "disabled"
  /\ ctl_buttons = "disabled"
  /\ after = 0
  /\ play_thread = 0
  /\ threads = [w \in Workers |-> DeadThread]
  /\ ui = "idle"
  /\ cmd = Cmd("other", 0)

\* The transport is Playing: no handler is running, both signals are clear
\* and the thread self.play_thread refers to is alive.
Playing == ui = "idle" /\ ~stop_event /\ ~pause_event /\ PlayThreadAlive(play_thread, threads)

\* ------------------------------------------------------- the Tk thread: UI
\* The callback scheduled by self.after(20, lambda: self.update_plot(self.sound.pos)).
Tick ==
  /\ after > 0
  /\ ui = "idle"
  /\ LET r == update_plot(pos, stop_event, pause_event, queue, pos, play_button,
                          PlayThreadAlive(play_thread, threads))
     IN /\ pos' = r.pos
        /\ last_pos' = r.last_pos
        /\ queue' = r.queue
        /\ play_button' = r.play_button
        /\ stop_event' = r.stop_event
        /\ after' = (after - 1) + r.scheduled
        /\ \E waker \in Wakers(threads, r) : threads' = AfterUpdate(threads, r, waker)
  /\ UNCHANGED <<data, time_axis, pause_event, marker_pos, ctl_buttons, play_thread, ui, cmd>>

\* App.click_play
click_play ==
  /\ ui = "idle"
  /\ play_button = "normal"
  /\ \E w \in Workers : ~Alive(threads[w])
  /\ after < MaxTicks
  /\ LET th == Spawn(threads, data, last_pos)
         r  == update_plot(last_pos, FALSE, FALSE, <<>>, pos, "disabled", TRUE)
     IN /\ play_thread' = 1
        /\ pos' = r.pos
        /\ last_pos' = r.last_pos
        /\ queue' = r.queue
        /\ play_button' = r.play_button
        /\ stop_event' = r.stop_event
        /\ pause_event' = FALSE
        /\ after' = after + r.scheduled
        /\ threads' = AfterUpdate(th, r, 0)
  /\ cmd' = Cmd("other", 0)
  /\ UNCHANGED <<data, time_axis, marker_pos, ctl_buttons, ui>>

\* App.click_pause, the branch taken when pause_event is set
Resume ==
  /\ pause_event
  /\ \E w \in Workers : ~Alive(threads[w])
  /\ after < MaxTicks
  /\ LET th == Spawn(threads, data, last_pos)
         r  == update_plot(last_pos, FALSE, FALSE, queue, pos, play_button, TRUE)
     IN /\ play_thread' = 1
        /\ pos' = r.pos
        /\ last_pos' = r.last_pos
        /\ queue' = r.queue
        /\ play_button' = r.play_button
        /\ stop_event' = r.stop_event
        /\ pause_event' = FALSE
        /\ after' = after + r.scheduled
        /\ \E waker \in Wakers(th, r) : threads' = AfterUpdate(th, r, waker)
  /\ cmd' = Cmd("other", 0)
  /\ UNCHANGED <<data, time_axis, marker_pos, ctl_buttons, ui>>

\* App.click_pause, the branch taken when pause_event is clear
Pause ==
  /\ ~pause_event
  /\ pause_event' = TRUE
  /\ stop_event' = TRUE
  /\ threads' = Signal(threads)
  /\ cmd' = IF Playing THEN Cmd("pause", pos) ELSE Cmd("other", 0)
  /\ UNCHANGED <<data, time_axis, queue, pos, last_pos, marker_pos, play_button,
                 ctl_buttons, after, play_thread, ui>>

\* App.click_pause
click_pause ==
  /\ ui = "idle"
  /\ ctl_buttons = "normal"
  /\ (Resume \/ Pause)

\* StopSignals for a click_stop that toggled the pause signal as click_pause does.
StopSignalsToggled(pse, stp) == <<~pse, TRUE>>

\* click_stop: the signals after self.stop_event.set() and
\* self.pause_event.clear(), <<pause_event, stop_event>>
StopSignals(pse, stp) == <<FALSE, TRUE>>

\* App.click_stop
click_stop ==
  /\ ui = "idle"
  /\ ctl_buttons = "normal"
  /\ LET sig == StopSignals(pause_event, stop_event)
         r == update_plot(0, sig[2], sig[1], queue, pos, play_button,
                          PlayThreadAlive(play_thread, threads))
     IN /\ pos' = r.pos
        /\ last_pos' = r.last_pos
        /\ queue' = r.queue
        /\ play_button' = r.play_button
        /\ stop_event' = r.stop_event
        /\ pause_event' = sig[1]
        /\ after' = after + r.scheduled
        /\ threads' = AfterUpdate(Signal(threads), r, 0)
  /\ cmd' = Cmd("stop", 0)
  /\ UNCHANGED <<data, time_axis, marker_pos, ctl_buttons, play_thread, ui>>

\* on_mouse_click: the new sound.last_pos
ClickLastPos(button, x, lp, axis) ==
  IF button = "LEFT" THEN (IF InRange(x, axis) THEN x ELSE lp) ELSE lp

\* ClickMarkerPos for a handler that moved the marker on every button.
ClickMarkerPosAnyButton(button, x, lp, mp, axis) ==
  IF InRange(x, axis) THEN <<x>> ELSE mp

\* on_mouse_click: the new sound.marker_pos
ClickMarkerPos(button, x, lp, mp, axis) ==
  IF button = "RIGHT" THEN (IF InRange(x, axis) THEN <<x>> ELSE <<lp>>) ELSE mp

\* ClickSignals for a handler that set the pause signal only.
ClickSignalsPauseOnly(button, pse, stp) == <<TRUE, stp>>

\* on_mouse_click: the signals after the click, <<pause_event, stop_event>>
ClickSignals(button, pse, stp) == <<TRUE, TRUE>>

\* App.on_mouse_click for an event inside the axes (xdata and ydata not None);
\* the canvas the handler is connected to exists once a file has been plotted.
on_mouse_click(button, x) ==
  /\ ui = "idle"
  /\ time_axis # NoFile
  /\ last_pos' = ClickLastPos(button, x, last_pos, time_axis)
  /\ marker_pos' = ClickMarkerPos(button, x, last_pos, marker_pos, time_axis)
  /\ pause_event' = ClickSignals(button, pause_event, stop_event)[1]
  /\ stop_event' = ClickSignals(button, pause_event, stop_event)[2]
  /\ threads' = IF stop_event' THEN Signal(threads) ELSE threads
  /\ cmd' = IF button = "LEFT" /\ InRange(x, time_axis) THEN Cmd("seek", x) ELSE Cmd("other", 0)
  /\ UNCHANGED <<data, time_axis, queue, pos, play_button, ctl_buttons, after,
                 play_thread, ui>>

\* extract_audio_data: "if self.data.any() and self.samplerate"
DataOK(f) == AnyNonZero(f) /\ Rate(f) # 0

\* extract_audio_data: what self.data / self.samplerate hold once sf.read has
\* returned for file f (sf.read raising leaves the handler before the store).
ReadInto(old, f) == IF Readable(f) THEN f ELSE old

\* App.extract_audio_data(file_path): sf.read raises and the handler ends, or
\* the data is stored and, if it passes the test, the session is reset, the
\* data plotted, the buttons enabled and update_plot(0) called.
extract_audio_data(f) ==
  /\ ui = "idle"
  /\ data' = ReadInto(data, f)
  /\ IF Readable(f) /\ DataOK(f)
       THEN /\ after < MaxTicks
            /\ LET r == update_plot(0, FALSE, FALSE, queue, 0, "normal",
                                    PlayThreadAlive(play_thread, threads))
               IN /\ pos' = r.pos
                  /\ last_pos' = r.last_pos
                  /\ queue' = r.queue
                  /\ play_button' = r.play_button
                  /\ stop_event' = r.stop_event
                  /\ after' = after + r.scheduled
                  /\ \E waker \in Wakers(threads, r) : threads' = AfterUpdate(threads, r, waker)
            /\ pause_event' = FALSE
            /\ marker_pos' = None
            /\ time_axis' = f
            /\ ctl_buttons' = "normal"
       ELSE UNCHANGED <<time_axis, stop_event, pause_event, queue, pos, last_pos, marker_pos,
                        play_button, ctl_buttons, after, threads>>
  /\ cmd' = Cmd("other", 0)
  /\ UNCHANGED <<play_thread, ui>>

\* App.on_close: the signals are set for the threads, the pending tick is
\* cancelled and the window destroyed.  Nothing reads the session after that,
\* so its fields are put back to their initial values; the threads and the
\* queue they share live on.
on_close ==
  /\ ui = "idle"
  /\ stop_event' = TRUE
  /\ pause_event' = FALSE
  /\ threads' = Signal(threads)
  /\ after' = 0
  /\ ui' = "closed"
  /\ cmd' = Cmd("other", 0)
  /\ data' = NoFile
  /\ time_axis' = NoFile
  /\ pos' = 0
  /\ last_pos' = 0
  /\ marker_pos' = None
  /\ play_button' = "disabled"
  /\ ctl_buttons' = "disabled"
  /\ play_thread' = 0
  /\ UNCHANGED queue

\* ---------------------------------------------------- the playback threads
\* Thread w is the one self.play_thread refers to and has just exited, the
\* stop signal being stp after its last step.
DiedUnsignalled(w, stp) == ui = "idle" /\ play_thread = w /\ ~stp

UIUnchanged == UNCHANGED <<data, time_axis, pause_event, pos, last_pos, marker_pos,
                           play_button, ctl_buttons, after, play_thread, ui>>

\* AsyncPlay.run up to stop_event.wait(): sd.OutputStream(...) raises
\* (deviceOK false) and run() returns through the except clause, or the
\* stream starts and the thread enters
\* stop_event.wait(), which returns at once when the flag is set.
Setup(w, deviceOK) ==
  /\ threads[w].st = "setup"
  /\ threads' =
       IF deviceOK
         THEN [threads EXCEPT ![w].stream = "active",
                              ![w].st = IF stop_event THEN "woken" ELSE "wait",
                              ![w].pending = IF stop_event THEN FALSE ELSE @]
         ELSE [threads EXCEPT ![w] = DeadThread]
  /\ cmd' = IF ~deviceOK /\ DiedUnsignalled(w, stop_event) THEN Cmd("died", w) ELSE cmd
  /\ UNCHANGED <<stop_event, queue>>
  /\ UIUnchanged

\* callback: chunksize = min(len(self.data) - self.current_frame, frames)
ChunkSize(t) ==
  IF t.n - t.frame < BlockFrames THEN t.n - t.frame ELSE BlockFrames

\* callback: the queue after "if self.queue.full(): self.queue.queue.clear()"
ClearIfFull(q) == IF Len(q) >= 1 THEN <<>> ELSE q

\* FinishedCallback for a stream created without finished_callback.
FinishedCallbackUnset(stp) == stp

\* finished_callback = self.stop_event.set: the stop signal once the stream
\* has run it.
FinishedCallback(stp) == TRUE

\* callback, up to queue.put.  When the buffer is exhausted it raises
\* CallbackStop: the stream ends and runs finished_callback, which is
\* self.stop_event.set (nothing else of this thread runs in between, so the
\* two are one step).  Otherwise it empties the queue if it is full.
CbBegin(w) ==
  /\ threads[w].st \in {"wait", "woken"}
  /\ threads[w].stream = "active"
  /\ threads[w].cb = "none"
  /\ IF ChunkSize(threads[w]) < BlockFrames
       THEN /\ stop_event' = FinishedCallback(stop_event)
            /\ LET th == [threads EXCEPT ![w].stream = "finished", ![w].frame = 0,
                                         ![w].n = 0, ![w].fs = 0]
               IN threads' = IF stop_event' THEN Notify(th) ELSE th
            /\ cmd' = IF Playing THEN Cmd("eob", w) ELSE cmd
            /\ UNCHANGED queue
       ELSE /\ queue' = ClearIfFull(queue)
            /\ threads' = [threads EXCEPT ![w].cb = "put"]
            /\ UNCHANGED <<stop_event, cmd>>
  /\ UIUnchanged

\* callback: self.queue.put(self.curr_time), which blocks while the queue is
\* full, then self.current_frame += chunksize.
CbPut(w) ==
  /\ threads[w].cb = "put"
  /\ IF Len(queue) < 1
       THEN /\ queue' = <<CurrTime(threads[w].frame, threads[w].fs)>>
            /\ threads' = [threads EXCEPT ![w].cb = "none",
                                          ![w].frame = @ + ChunkSize(threads[w])]
       ELSE /\ threads' = [threads EXCEPT ![w].cb = "blocked"]
            /\ UNCHANGED queue
  /\ UNCHANGED <<stop_event, cmd>>
  /\ UIUnchanged

\* Leaving "with stream" once stop_event.wait() has returned: the stream is
\* closed after its in-flight callback, a stream that had not finished fires
\* finished_callback, and run() returns.
Teardown(w) ==
  /\ threads[w].st = "woken"
  /\ threads[w].cb = "none"
  /\ IF threads[w].stream # "finished"
       THEN /\ stop_event' = FinishedCallback(stop_event)
            /\ LET th == [threads EXCEPT ![w] = DeadThread]
               IN threads' = IF stop_event' THEN Notify(th) ELSE th
       ELSE /\ threads' = [threads EXCEPT ![w] = DeadThread]
            /\ UNCHANGED stop_event
  /\ cmd' = IF DiedUnsignalled(w, stop_event') THEN Cmd("died", w) ELSE cmd
  /\ UNCHANGED queue
  /\ UIUnchanged

\* Every step but the right click and the closing of the window.
NextCore ==
  \/ Tick
  \/ click_play
  \/ click_pause
  \/ click_stop
  \/ \E x \in ClickTimes : on_mouse_click("LEFT", x)
  \/ \E f \in Files : extract_audio_data(f)
  \/ \E w \in Workers, ok \in BOOLEAN : Setup(w, ok)
  \/ \E w \in Workers : CbBegin(w)
  \/ \E w \in Workers : CbPut(w)
  \/ \E w \in Workers : Teardown(w)

Next ==
  \/ NextCore
  \/ \E x \in ClickTimes : on_mouse_click("RIGHT", x)
  \/ on_close

Spec == Init /\ [][Next]_vars

\* The specification for what must eventually happen.  The Tk event loop
\* runs every due after() callback and the operating system schedules every
\* playback thread; the user is under no obligation to issue commands.
\* Two user commands are left out to keep the behaviour graph small: the
\* right click, whose effect on everything but sound.marker_pos (which no
\* handler reads) is that of the out-of-range left click, and on_close, after
\* which the transport is never Playing again.
FairSpec ==
  /\ Init /\ [][NextCore]_vars
  /\ WF_vars(Tick)
  /\ \A w \in Workers : WF_vars(Teardown(w))

\* ============================================================ properties
Abs(i) == IF i < 0 THEN -i ELSE i

\* A file extract_audio_data accepts / the spec says it must accept.
Accepted(f) == Readable(f) /\ DataOK(f)
Loadable(f) == Readable(f) /\ NFrames(f) >= 1 /\ Rate(f) > 0

\* C1: once click_stop has returned, sound.last_pos and sound.pos are 0 and
\* stay 0 through every render tick and every step of the playback threads,
\* until the next user command.
C1_StopResetsPositions == cmd.op = "stop" => (pos = 0 /\ last_pos = 0)

\* C1 witness: Stop was issued while a thread that has played past its first
\* frame is still alive, and a position it pushed sits unread in the queue.
C1_Witness ==
  /\ cmd.op = "stop"
  /\ \E w \in Workers : Alive(threads[w]) /\ threads[w].frame > 1
  /\ queue # <<>>

\* C2: when Pause was issued while Playing at sound.pos = p and the next user
\* command is the pause toggle again, the thread that the resume starts is
\* seeded within one callback chunk of p.
C2_ResumeSeedsAtPausedPosition ==
  [][(cmd.op = "pause" /\ click_pause)
       => Abs(threads'[1].frame - StartFrame(cmd.x, Rate(data))) <= BlockFrames]_vars

\* C3: after a left click at an in-range time t, sound.last_pos is t and stays
\* t until the next user command.
C3_SeekHoldsUntilNextCommand == cmd.op = "seek" => last_pos = cmd.x

\* C4: a click whose time lies outside the plotted time range changes neither
\* sound.last_pos nor sound.marker_pos.
C4_OutOfRangeClickChangesNothing ==
  [][\A b \in Buttons, x \in ClickTimes :
       (on_mouse_click(b, x) /\ ~InRange(x, time_axis))
         => (last_pos' = last_pos /\ marker_pos' = marker_pos)]_vars

\* C5: an in-range right click leaves the stop signal, the pause signal and
\* the liveness of every playback thread as they were.
C5_RightClickKeepsTransport ==
  [][\A x \in ClickTimes :
       (on_mouse_click("RIGHT", x) /\ InRange(x, time_axis))
         => /\ stop_event' = stop_event
            /\ pause_event' = pause_event
            /\ \A w \in Workers : Alive(threads'[w]) = Alive(threads[w])]_vars

\* C6: a playback thread's push into the queue never blocks, and the queue
\* never holds more than one value.
C6_PushNeverBlocks ==
  /\ \A w \in Workers : threads[w].cb # "blocked"
  /\ Len(queue) <= 1

\* C7: if a thread reaches the end of its buffer while the transport is
\* Playing and no user command follows, then eventually the stop signal is
\* set with the pause signal clear, sound.pos and sound.last_pos are 0, that
\* thread has terminated and the Play button is enabled.
C7_EndOfBufferStops ==
  (cmd.op = "eob") ~>
    \/ cmd.op # "eob"
    \/ /\ stop_event /\ ~pause_event
       /\ pos = 0 /\ last_pos = 0
       /\ ~Alive(threads[cmd.x])
       /\ play_button = "normal"

\* C7 witness: a thread ran out of buffer while Playing, no user command has
\* followed, and the reset has happened with the last render tick done.
C7_Witness ==
  /\ cmd.op = "eob"
  /\ stop_event /\ ~pause_event /\ pos = 0 /\ last_pos = 0
  /\ ~Alive(threads[cmd.x])
  /\ play_button = "normal"
  /\ after = 0

\* C8: opening a readable file with at least one frame and a positive sample
\* rate creates the session whatever the sample values: positions 0, marker
\* unset, the file plotted and the transport buttons enabled.
C8_LoadableFileIsLoaded ==
  [][\A f \in Files :
       (extract_audio_data(f) /\ Loadable(f))
         => /\ time_axis' = f
            /\ pos' = 0 /\ last_pos' = 0 /\ marker_pos' = None
            /\ ctl_buttons' = "normal"]_vars

\* C9: an open that fails or is rejected leaves the sample buffer and rate,
\* the three positions and the two signals exactly as they were.
C9_RejectedLoadChangesNothing ==
  [][\A f \in Files :
       (extract_audio_data(f) /\ ~Accepted(f))
         => UNCHANGED <<data, pos, last_pos, marker_pos, stop_event, pause_event>>]_vars

\* C10: when a file has been opened successfully, no playback thread of the
\* previous file is alive and the transport is Stopped.
C10_LoadHaltsWorker ==
  [][\A f \in Files :
       (extract_audio_data(f) /\ Accepted(f))
         => /\ \A w \in Workers : ~Alive(threads'[w])
            /\ stop_event' /\ ~pause_event']_vars

\* C11: at most one playback thread is alive in every reachable state: no
\* sequence of commands starts a thread while an earlier one is still alive.
C11_AtMostOneWorker ==
  \A v, w \in Workers : (Alive(threads[v]) /\ Alive(threads[w])) => v = w

\* C12: Stop is idempotent.  Once click_stop has returned, and whatever render
\* ticks and thread steps follow it, sound.pos and sound.last_pos are 0, the
\* stop signal is set, the pause signal clear and every live thread has been
\* signalled; and a second click_stop then changes nothing at all.
C12_StopIdempotent ==
  /\ [](cmd.op = "stop" =>
          /\ pos = 0 /\ last_pos = 0
          /\ stop_event /\ ~pause_event
          /\ \A w \in Workers : threads[w].st # "wait")
  /\ [][(cmd.op = "stop" /\ click_stop) => UNCHANGED vars]_vars

\* C12 witness: Stop was issued after playback had been started, the last
\* render tick has run and every thread has exited; Stop can be issued again.
C12_Witness ==
  /\ cmd.op = "stop"
  /\ play_thread = 1
  /\ after = 0
  /\ \A w \in Workers : ~Alive(threads[w])
  /\ ENABLED click_stop

\* C13: a right click at an in-range time t sets sound.marker_pos to t and
\* leaves sound.last_pos as it was; and no step other than a right click or
\* the opening of a file (or the closing of the window, which ends the
\* session) changes sound.marker_pos.
C13_MarkerSetAndKept ==
  [][/\ \A x \in ClickTimes :
          (on_mouse_click("RIGHT", x) /\ InRange(x, time_axis))
            => (marker_pos' = <<x>> /\ last_pos' = last_pos)
     /\ marker_pos' # marker_pos
          => \/ \E x \in ClickTimes : on_mouse_click("RIGHT", x)
             \/ \E f \in Files : extract_audio_data(f)
             \/ on_close]_vars

\* C13 witness: the marker sits at time 1 of the long file while a Stop that
\* followed has put sound.last_pos at 0.
C13_Witness ==
  /\ time_axis = "long"
  /\ marker_pos = <<1>>
  /\ cmd.op = "stop"
  /\ last_pos = 0

\* C14: while a file is loaded, sound.pos and sound.last_pos lie between 0
\* and the duration of that file.
C14_PositionsWithinDuration ==
  time_axis # NoFile =>
    /\ 0 <= pos /\ pos <= Duration(time_axis)
    /\ 0 <= last_pos /\ last_pos <= Duration(time_axis)

\* C15: a render tick that finds the stop signal set schedules no further
\* tick, and puts sound.pos and sound.last_pos at 0 when the pause signal is
\* clear but leaves sound.pos where it is when the pause signal is set; a
\* tick that finds the stop signal clear schedules exactly one next tick.
C15_TickStopsOrReschedules ==
  [][Tick =>
       IF stop_event
         THEN /\ after' = after - 1
              /\ IF pause_event THEN pos' = pos ELSE (pos' = 0 /\ last_pos' = 0)
         ELSE after' = after]_vars

\* C15 witness: playback was paused at a position past the start, and the
\* render tick that found the stop signal set has run without rescheduling.
C15_Witness ==
  /\ ui = "idle"
  /\ play_thread = 1
  /\ stop_event /\ pause_event
  /\ pos > 0
  /\ after = 0
  /\ cmd.op = "pause"

\* C16: a render tick that finds the thread self.play_thread refers to dead
\* sets the stop signal; and when that thread has exited with the stop signal
\* clear and no user command follows, then eventually the stop signal is set,
\* the pause signal clear and the Play button enabled.  (The thread's failure
\* reaches the Tk thread in no other way: run() catches every exception.)
C16_DeadWorkerStops ==
  /\ [][(Tick /\ ~PlayThreadAlive(play_thread, threads)) => stop_event']_vars
  /\ (cmd.op = "died") ~>
       \/ cmd.op # "died"
       \/ (stop_event /\ ~pause_event /\ play_button = "normal")

\* C16 witness: the thread died with the stop signal clear, no user command
\* has followed, and the render ticks have stopped the transport.
C16_Witness ==
  /\ cmd.op = "died"
  /\ ~Alive(threads[cmd.x])
  /\ stop_event /\ ~pause_event
  /\ play_button = "normal"
  /\ after = 0

\* C17: a thread that is alive when a user command raises the stop signal
\* goes on to terminate: it is never found waiting for the stop signal with
\* that signal of the user still unseen, whatever Play or Resume has done to
\* the flag in between.
C17_SignalledWorkerExits ==
  \A w \in Workers : ~(threads[w].st = "wait" /\ threads[w].pending)

\* C18: while the stop signal is clear and the thread self.play_thread refers
\* to is alive, no step of another, earlier thread (the end of its buffer,
\* the closing of its stream) raises the stop signal.
C18_OldWorkerNeverHaltsNew ==
  [][\A w \in Workers :
       (/\ CbBegin(w) \/ Teardown(w)
        /\ w # play_thread
        /\ ~stop_event
        /\ PlayThreadAlive(play_thread, threads))
         => ~stop_event']_vars

\* C19: at most one callback of update_plot scheduled with self.after is
\* pending at any time.
C19_AtMostOneTickPending == after <= 1

\* C20: between the handlers of the Tk thread, the pause signal is set only
\* when the stop signal is set too, so no render tick finds the stop signal
\* clear with the pause signal set.
C20_PauseImpliesStop == pause_event => stop_event

\* C20 witness: a left click during playback has set both signals while the
\* thread self.play_thread refers to is still alive and a tick is pending.
C20_Witness ==
  /\ cmd.op = "seek"
  /\ pause_event /\ stop_event
  /\ PlayThreadAlive(play_thread, threads)
  /\ after > 0

====
